---- MODULE Spec2Model ----
(***************************************************************************)
(* Snapshot caching and fan-out subsystem of the gateway:                  *)
(*   - IntelService (GetSnapshot, refreshAsync, fetchAndCache, getCached,  *)
(*     publish) over a MemoryCache,                                        *)
(*   - PythonClient.RunIntel and its circuitBreaker,                       *)
(*   - the topics of IntelService (Subscribe, unsubscribe, runTopic),      *)
(*   - the per-IP limiter of the HTTP middleware,                          *)
(*   - the key-value cache and the query key.                              *)
(* Time is counted in ticks; a second has TicksPerSec ticks, so that the   *)
(* RFC3339 formatting of fetched_at (whole seconds) loses the sub-second   *)
(* part as time.Format does.                                               *)
(***************************************************************************)
EXTENDS Integers, Sequences, FiniteSets, TLC

\* ------------------------------------------------------------------ bounds
TicksPerSec == 2
MaxClock == 6
MaxSoftTTL == 1
MaxHardTTL == 2
MaxFailLimit == 2
MaxCooldown == 1
TicksPerMin == 2
MaxLimClock == 5
MaxPerMin == 2
MaxTTL == 2
MaxWatch == 2
\* config.CacheTTLNews, in seconds
NewsTTL == 1

\* RunIntel's loop bound: for attempt := 0; attempt < 3; attempt++
MaxAttempts == 3

Callers == {"c1", "c2"}
Keys == {"k1"}
Rids == {"r1", "r2"}
Subs == {"s1", "s2"}
Ips == {"a", "b"}
Loops == {"l1", "l2"}

VARIABLES
    now,         \* the wall clock, in ticks
    cfg,         \* config.Config: CacheTTLIntel, CacheTTLIntelHard (seconds)
    cache,       \* MemoryCache.items: key -> memItem or NoItem
    refreshing,  \* IntelService.refreshing: key -> BOOLEAN
    topics,      \* IntelService.topics: key -> intelTopic or NoTopic
    rf,          \* the goroutines started by refreshAsync: rid -> state
    pc,          \* position of each GetSnapshot caller
    loc,         \* the locals of each caller's GetSnapshot in progress
    gh,          \* per caller: what its current/latest call did (history)
    last,        \* the latest GetSnapshot return (history)
    cb,          \* circuitBreaker: failures, openedAt
    rp,          \* each RunIntel caller: position, attempt, lastErr, ctx, result
    trial,       \* the caller admitted by a cooldown expiry, while it runs (history)
    run,         \* the failures recorded since the last success (history)
    backend,     \* the Cache behind the service: "memory", "down" or "nil"
    sub,         \* each Subscribe call and its unsubscribe closure: sub -> state
    ch,          \* the channel made by each Subscribe: sub -> buffer, closes
    lp,          \* the runTopic goroutines: loop -> state
    lnow,        \* the clock the limiter reads, in ticks of TicksPerMin a minute
    lim,         \* limiter: perMin, buckets, lastCleanup
    lh,          \* per IP: its current window and the latest decision (history)
    kv,          \* per key: the most recent Set (history)
    got,         \* the latest Get and what it returned (history)
    qry,         \* two queries: timeframe, news window, watchlist
    keyOf,       \* the keys computed for the two queries
    npage,       \* the cache entry under the News handler's key: memItem or NoItem
    nlast        \* the latest response of the News handler (history)

snapVars == <<cache, refreshing, topics, rf, pc, loc, gh, last>>

brVars == <<cb, rp, trial, run>>

topVars == <<sub, ch, lp>>

limVars == <<lnow, lim, lh>>

kvVars == <<kv, got>>

keyVars == <<qry, keyOf>>

newsVars == <<npage, nlast>>

envVars == <<backend, limVars, kvVars, keyVars, newsVars>>

auxVars == <<envVars, topVars>>

vars == <<now, cfg, snapVars, brVars, auxVars>>

\* ------------------------------------------------------------------ values
\* A TsISO string is a sequence of characters; " " is the only white space used.
\* "T" and "U" stand for two timestamps.
TsValues == {<<>>, <<" ">>, <<"T">>, <<"U">>}

\* models.IntelResponse, by its TsISO; the zero value has the empty string
EmptyResp == [TsISO |-> <<>>]

Resps == [TsISO : TsValues]

\* time.Time: the zero Time, or an instant in ticks.
ZeroTime == [isZero |-> TRUE, t |-> 0]

At(t) == [isZero |-> FALSE, t |-> t]

NoItem == [present |-> FALSE]

\* An entry the service did not write: one left under the key in the external
\* store by another writer, without timestamp and without expiry.
ForeignItem ==
    [present |-> TRUE, val |-> [FetchedAt |-> 0, Resp |-> [TsISO |-> <<" ">>]],
     exp |-> ZeroTime, own |-> FALSE]

NoTopic == [present |-> FALSE]

\* history: a key no Set has written
NoSet == [set |-> FALSE]

\* history: no Get yet
NoGot == [n |-> 0, none |-> TRUE]

\* a nil *IntelSnapshot
NilSnap == [nil |-> TRUE]

\* a Subscribe call that has not started; cap is the topic.last it read at line
\* 74; history: hadLast, whether that was a snapshot (until the subscriber
\* first reads its channel), and by, who ran the body of unsubscribe
NoSub ==
    [st |-> "idle", key |-> "", once |-> FALSE, ctxDone |-> FALSE,
     watcher |-> "none", by |-> "none", cap |-> NilSnap, hadLast |-> FALSE]

\* make(chan IntelSnapshot, 1): an empty buffer, never closed
NewChan == [buf |-> <<>>, closes |-> 0]

NoLoop == [st |-> "none"]

\* no entry in limiter.buckets
NoBucket == [present |-> FALSE]

\* history of an IP that has not called yet
NoCalls == [called |-> FALSE, start |-> 0, n |-> 0, ok |-> FALSE, afterDenial |-> FALSE]

NoRid == [st |-> "none"]

\* history: the News handler has not answered yet
NoNews == [none |-> TRUE]

NoLoc ==
    [key |-> "", ok |-> FALSE, cached |-> EmptyResp, fetchedAt |-> 0,
     window |-> "none", sawBlank |-> FALSE]

NoGh == [tier |-> "none", spawned |-> FALSE, inflight |-> FALSE, overlap |-> {}]

NoLast ==
    [c |-> "", ok |-> FALSE, tier |-> "none", window |-> "none",
     sawBlank |-> FALSE, Source |-> "", Stale |-> FALSE,
     Err |-> "", nilErr |-> TRUE, respIsCached |-> FALSE, atIsCached |-> FALSE,
     upstream |-> "none", upErr |-> "", spawned |-> FALSE, inflight |-> FALSE]

\* ------------------------------------------------------------- pure helpers
\* time.Format(time.RFC3339): whole seconds, the sub-second part is dropped.
FormatRFC3339(t) == t \div TicksPerSec

\* time.Parse(time.RFC3339, s): the instant of that whole second.
ParseRFC3339(s) == s * TicksPerSec

\* a time.Duration of d seconds, in ticks
Seconds(d) == d * TicksPerSec

RECURSIVE TrimLeft(_)
TrimLeft(s) == IF s # <<>> /\ Head(s) = " " THEN TrimLeft(Tail(s)) ELSE s

RECURSIVE TrimRight(_)
TrimRight(s) ==
    IF s # <<>> /\ s[Len(s)] = " " THEN TrimRight(SubSeq(s, 1, Len(s) - 1)) ELSE s

TrimSpace(s) == TrimRight(TrimLeft(s))

hasCacheableIntel_NoTrim(resp) == resp.TsISO # <<>>

hasCacheableIntel(resp) == TrimSpace(resp.TsISO) # <<>>

intelHardTTL_Unclamped == cfg.CacheTTLIntelHard

intelHardTTL ==
    IF cfg.CacheTTLIntelHard <= 0 THEN cfg.CacheTTLIntel
    ELSE IF cfg.CacheTTLIntelHard < cfg.CacheTTLIntel THEN cfg.CacheTTLIntel
    ELSE cfg.CacheTTLIntelHard

\* ------------------------------------------------------------- MemoryCache
\* MemoryCache.Get: the item is expired when its exp is set and now is after it.
MemExpired_Inclusive(it) == ~it.exp.isZero /\ now >= it.exp.t

MemExpired(it) == ~it.exp.isZero /\ now > it.exp.t

MemGetFound(k) == cache[k].present /\ ~MemExpired(cache[k])

\* the items map after Get(k): an expired item is deleted
MemGetItems(k) ==
    IF cache[k].present /\ MemExpired(cache[k]) THEN [cache EXCEPT ![k] = NoItem]
    ELSE cache

\* the items map after Set(k, val, ttl); ttl in ticks
MemSetItems(k, val, ttl) ==
    [cache EXCEPT ![k] =
        [present |-> TRUE, val |-> val,
         exp |-> IF ttl > 0 THEN At(now + ttl) ELSE ZeroTime, own |-> TRUE]]

\* ---------------------------------------------------- the service's Cache
\* s.cache.Get: the MemoryCache, or a RedisCache whose calls fail (line 550)
cacheGetFound(k) == backend = "memory" /\ MemGetFound(k)

cacheGetItems(k) == IF backend = "memory" THEN MemGetItems(k) ELSE cache

\* s.cache.Set: a failing backend stores nothing and returns its error
cacheSetItems(k, val, ttl) ==
    IF backend = "memory" THEN MemSetItems(k, val, ttl) ELSE cache

cacheSetErr == IF backend = "down" THEN "cache set failed" ELSE ""

\* -------------------------------------------------------------- getCached
\* getCached over the result of cache.Get: (resp, fetchedAt, ok)
getCached(k) ==
    IF backend = "nil" THEN [ok |-> FALSE, resp |-> EmptyResp, fetchedAt |-> 0]
    ELSE IF ~cacheGetFound(k) THEN [ok |-> FALSE, resp |-> EmptyResp, fetchedAt |-> 0]
    ELSE IF ~hasCacheableIntel(cache[k].val.Resp)
         THEN [ok |-> FALSE, resp |-> EmptyResp, fetchedAt |-> 0]
    ELSE [ok |-> TRUE, resp |-> cache[k].val.Resp,
          fetchedAt |-> ParseRFC3339(cache[k].val.FetchedAt)]

\* ------------------------------------------------------ what RunIntel returns
\* PythonClient.RunIntel as fetchAndCache sees it: a decoded response and a nil
\* error, or an error with the (empty or partly decoded) response.
ErrTexts == {"python circuit breaker open", "context deadline exceeded"}

PartialResp == [TsISO |-> <<"T">>]

RunIntelOutcomes ==
    [ok : {TRUE}, resp : Resps, err : {""}]
        \cup [ok : {FALSE}, resp : {EmptyResp, PartialResp}, err : ErrTexts]

\* ------------------------------------------------------------ fetchAndCache
\* the cache after fetchAndCache got outcome o for key k
fetchAndCacheItems_NoCheck(k, o) ==
    IF o.ok
    THEN MemSetItems(k, [FetchedAt |-> FormatRFC3339(now), Resp |-> o.resp],
                     Seconds(intelHardTTL))
    ELSE cache

fetchAndCacheItems_SoftTTL(k, o) ==
    IF o.ok /\ backend # "nil" /\ hasCacheableIntel(o.resp)
    THEN cacheSetItems(k, [FetchedAt |-> FormatRFC3339(now), Resp |-> o.resp],
                       Seconds(cfg.CacheTTLIntel))
    ELSE cache

fetchAndCacheItems(k, o) ==
    IF o.ok /\ backend # "nil" /\ hasCacheableIntel(o.resp)
    THEN cacheSetItems(k, [FetchedAt |-> FormatRFC3339(now), Resp |-> o.resp],
                       Seconds(intelHardTTL))
    ELSE cache

\* what fetchAndCache hands to its caller when RunIntel's outcome is o (lines
\* 222-241): RunIntel's response and error; the error of Set is dropped
fetchAndCacheOutcome_SetError(o) ==
    IF o.ok /\ backend # "nil" /\ hasCacheableIntel(o.resp) /\ cacheSetErr # ""
    THEN [ok |-> FALSE, resp |-> o.resp, err |-> cacheSetErr]
    ELSE o

fetchAndCacheOutcome(o) == o

\* the SnapshotMeta fetchAndCache returns
fetchAndCacheMeta(o) ==
    IF o.ok THEN [Source |-> "fresh", Stale |-> FALSE, Err |-> "",
                  FetchedAt |-> FormatRFC3339(now)]
    ELSE [Source |-> "error", Stale |-> FALSE, Err |-> o.err, FetchedAt |-> 0]

\* ------------------------------------------------------------------ publish
\* the topics after publish(k, snap): only a registered topic is touched
publish(k, snap) ==
    IF topics[k].present THEN [topics EXCEPT ![k].last = snap] ELSE topics

\* the non-blocking send of lines 181-184 on a channel's one-slot buffer
trySend_Overwrite(buf, snap) == <<snap>>

trySend(buf, snap) == IF buf = <<>> THEN <<snap>> ELSE buf

\* the channels after publish(k, snap): a send to every subscriber of the topic
publishSend(k, snap) ==
    IF topics[k].present
    THEN [s \in Subs |->
            IF s \in topics[k].subs
            THEN [ch[s] EXCEPT !.buf = trySend(ch[s].buf, snap)]
            ELSE ch[s]]
    ELSE ch

\* -------------------------------------------------------------- GetSnapshot
\* the tier GetSnapshot takes for a lookup result and an age (in ticks)
Tier_SoftExclusive(ok, age) ==
    IF ok /\ age < Seconds(cfg.CacheTTLIntel) THEN "fresh"
    ELSE IF ok /\ age <= Seconds(intelHardTTL) THEN "stale"
    ELSE "fetch"

Tier_NoStaleTier(ok, age) ==
    IF ok /\ age <= Seconds(cfg.CacheTTLIntel) THEN "fresh"
    ELSE "fetch"

Tier(ok, age) ==
    IF ok /\ age <= Seconds(cfg.CacheTTLIntel) THEN "fresh"
    ELSE IF ok /\ age <= Seconds(intelHardTTL) THEN "stale"
    ELSE "fetch"

Active(c) == pc[c] # "idle"

\* history: the freshness window an age (in ticks) falls in, in the words of the
\* freshness policy: at most the soft TTL, at most the effective hard TTL, beyond
AgeWindow(age) ==
    IF age <= Seconds(cfg.CacheTTLIntel) THEN "soft"
    ELSE IF age <= Seconds(intelHardTTL) THEN "stale"
    ELSE "expired"

\* history: a TsISO with no character other than white space
Blank(ts) == \A i \in 1..Len(ts) : ts[i] = " "

\* history: caller c starts a call that takes tier t; it overlaps every call
\* in progress
StartCall(c, t) ==
    [d \in Callers |->
        IF d = c
        THEN [tier |-> t, spawned |-> FALSE, inflight |-> FALSE,
              overlap |-> {e \in Callers \ {c} : Active(e)}]
        ELSE IF Active(d) THEN [gh[d] EXCEPT !.overlap = @ \cup {c}]
        ELSE gh[d]]

\* what GetSnapshot returns in the fresh tier (lines 116-122)
FreshReturn(l) ==
    [resp |-> l.cached, Source |-> "cache", Stale |-> FALSE, Err |-> "",
     FetchedAt |-> FormatRFC3339(l.fetchedAt), nilErr |-> TRUE]

\* what GetSnapshot returns in the stale tier (lines 125-129)
StaleReturn(l) ==
    [resp |-> l.cached, Source |-> "stale_cache", Stale |-> TRUE, Err |-> "",
     FetchedAt |-> FormatRFC3339(l.fetchedAt), nilErr |-> TRUE]

\* what GetSnapshot returns after fetchAndCache got outcome o (lines 133-146)
FetchReturn_ErrorOnFailure(l, o) ==
    IF o.ok
    THEN [resp |-> o.resp, Source |-> "fresh", Stale |-> FALSE, Err |-> "",
          FetchedAt |-> FormatRFC3339(now), nilErr |-> TRUE]
    ELSE [resp |-> o.resp, Source |-> "error", Stale |-> FALSE, Err |-> o.err,
          FetchedAt |-> 0, nilErr |-> FALSE]

FetchReturn_SwallowError(l, o) ==
    IF o.ok
    THEN [resp |-> o.resp, Source |-> "fresh", Stale |-> FALSE, Err |-> "",
          FetchedAt |-> FormatRFC3339(now), nilErr |-> TRUE]
    ELSE IF l.ok
    THEN [resp |-> l.cached, Source |-> "stale_cache", Stale |-> TRUE,
          Err |-> o.err, FetchedAt |-> FormatRFC3339(l.fetchedAt), nilErr |-> TRUE]
    ELSE [resp |-> o.resp, Source |-> "error", Stale |-> FALSE, Err |-> o.err,
          FetchedAt |-> 0, nilErr |-> TRUE]

FetchReturn(l, o) ==
    IF o.ok
    THEN [resp |-> o.resp, Source |-> fetchAndCacheMeta(o).Source,
          Stale |-> fetchAndCacheMeta(o).Stale, Err |-> fetchAndCacheMeta(o).Err,
          FetchedAt |-> fetchAndCacheMeta(o).FetchedAt, nilErr |-> TRUE]
    ELSE IF l.ok
    THEN [resp |-> l.cached, Source |-> "stale_cache", Stale |-> TRUE,
          Err |-> o.err, FetchedAt |-> FormatRFC3339(l.fetchedAt), nilErr |-> TRUE]
    ELSE [resp |-> o.resp, Source |-> "error", Stale |-> FALSE, Err |-> o.err,
          FetchedAt |-> 0, nilErr |-> FALSE]

\* history: the record of caller c returning ret; up is what the call's own
\* upstream call did ("none" when it made none), upErr its error text
Returned(c, l, g, ret, up, upErr) ==
    [c |-> c, ok |-> l.ok, tier |-> g.tier, window |-> l.window,
     sawBlank |-> l.sawBlank,
     Source |-> ret.Source, Stale |-> ret.Stale, Err |-> ret.Err,
     nilErr |-> ret.nilErr,
     respIsCached |-> l.ok /\ ret.resp = l.cached,
     atIsCached |-> l.ok /\ ret.FetchedAt = FormatRFC3339(l.fetchedAt),
     upstream |-> up, upErr |-> upErr,
     spawned |-> g.spawned, inflight |-> g.inflight]

\* GetSnapshot up to the tier decision (lines 108-131): the cache lookup, the
\* age, and the return of the fresh tier.
GetSnapshot(c, k) ==
    /\ pc[c] = "idle"
    /\ LET g == getCached(k)
           t == Tier(g.ok, now - g.fetchedAt)
           l == [key |-> k, ok |-> g.ok, cached |-> g.resp, fetchedAt |-> g.fetchedAt,
                 window |-> IF g.ok THEN AgeWindow(now - g.fetchedAt) ELSE "none",
                 sawBlank |-> cacheGetFound(k) /\ Blank(cache[k].val.Resp.TsISO)]
       IN /\ cache' = cacheGetItems(k)
          /\ gh' = StartCall(c, t)
          /\ IF t = "fresh"
             THEN /\ last' = Returned(c, l, gh'[c], FreshReturn(l), "none", "")
                  /\ UNCHANGED <<pc, loc>>
             ELSE /\ pc' = [pc EXCEPT ![c] = t]
                  /\ loc' = [loc EXCEPT ![c] = l]
                  /\ UNCHANGED last
    /\ UNCHANGED <<now, cfg, refreshing, topics, rf>>
    /\ UNCHANGED <<brVars, auxVars>>

\* refreshAsync's critical section (lines 191-197): does this call start a refresh?
refreshStarts_NoFlag(k) == TRUE

refreshStarts(k) == ~refreshing[k]

FreeRid == CHOOSE r \in Rids : rf[r].st = "none"

\* The stale tier of GetSnapshot (lines 123-130): refreshAsync, then the return.
refreshAsync(c) ==
    /\ pc[c] = "stale"
    /\ LET k == loc[c].key
           start == refreshStarts(k)
       IN /\ start => \E r \in Rids : rf[r].st = "none"
          /\ refreshing' = [refreshing EXCEPT ![k] = TRUE]
          /\ rf' = IF start THEN [rf EXCEPT ![FreeRid] = [st |-> "run", key |-> k, reqDone |-> FALSE]]
                   ELSE rf
          /\ gh' = [gh EXCEPT ![c].spawned = start, ![c].inflight = refreshing[k]]
          /\ last' = Returned(c, loc[c], gh'[c], StaleReturn(loc[c]), "none", "")
    /\ pc' = [pc EXCEPT ![c] = "idle"]
    /\ loc' = [loc EXCEPT ![c] = NoLoc]
    /\ UNCHANGED <<now, cfg, cache, topics>>
    /\ UNCHANGED <<brVars, auxVars>>

\* The synchronous path of GetSnapshot (lines 133-146): fetchAndCache returns
\* with outcome o, then the fallback on the entry found earlier.
GetSnapshotFetch(c) ==
    /\ pc[c] = "fetch"
    /\ \E o \in RunIntelOutcomes :
        /\ cache' = fetchAndCacheItems(loc[c].key, o)
        /\ last' = Returned(c, loc[c], gh[c],
                            FetchReturn(loc[c], fetchAndCacheOutcome(o)),
                            IF o.ok THEN "ok" ELSE "fail", o.err)
    /\ pc' = [pc EXCEPT ![c] = "idle"]
    /\ loc' = [loc EXCEPT ![c] = NoLoc]
    /\ UNCHANGED <<now, cfg, refreshing, topics, rf, gh>>
    /\ UNCHANGED <<brVars, auxVars>>

\* ------------------------------------------- the goroutine of refreshAsync
\* The context of the request whose GetSnapshot started refresh r is cancelled
\* or its deadline passes (history: reqDone); GetSnapshot has returned by then.
RequestDone(r) ==
    /\ rf[r].st = "run"
    /\ ~rf[r].reqDone
    /\ rf' = [rf EXCEPT ![r].reqDone = TRUE]
    /\ UNCHANGED <<now, cfg, cache, refreshing, topics, pc, loc, gh, last>>
    /\ UNCHANGED <<brVars, auxVars>>

\* line 206: is the goroutine's context done once the request's is? It derives
\* from context.Background(), not from the request's context
refreshCtxDone_Inherited(r) == r.reqDone

refreshCtxDone(r) == FALSE

\* lines 206-211: fetchAndCache under the goroutine's own context; under a
\* context that is done RunIntel returns the context's error
RefreshFetch(r) ==
    /\ rf[r].st = "run"
    /\ \E o \in RunIntelOutcomes :
        /\ refreshCtxDone(rf[r]) =>
              (~o.ok /\ o.resp = EmptyResp /\ o.err = "context deadline exceeded")
        /\ cache' = fetchAndCacheItems(rf[r].key, o)
        /\ rf' = [rf EXCEPT ![r] =
                    IF ~fetchAndCacheOutcome(o).ok \/ o.resp.TsISO = <<>>
                    THEN [st |-> "exit", key |-> rf[r].key,
                          reqDone |-> rf[r].reqDone]
                    ELSE [st |-> "publish", key |-> rf[r].key,
                          reqDone |-> rf[r].reqDone,
                          snap |-> [Resp |-> o.resp, Meta |-> fetchAndCacheMeta(o)]]]
    /\ UNCHANGED <<now, cfg, refreshing, topics, pc, loc, gh, last>>
    /\ UNCHANGED <<brVars, auxVars>>

\* line 212: publish the fresh snapshot
RefreshPublish(r) ==
    /\ rf[r].st = "publish"
    /\ topics' = publish(rf[r].key, rf[r].snap)
    /\ ch' = publishSend(rf[r].key, rf[r].snap)
    /\ rf' = [rf EXCEPT ![r] = [st |-> "exit", key |-> rf[r].key,
                                 reqDone |-> rf[r].reqDone]]
    /\ UNCHANGED <<now, cfg, cache, refreshing, pc, loc, gh, last>>
    /\ UNCHANGED <<brVars, envVars, sub, lp>>

\* lines 200-204: the deferred function deletes the key's refresh flag
refreshDone_Leak(k) == refreshing

refreshDone(k) == [refreshing EXCEPT ![k] = FALSE]

\* the goroutine returns and its deferred function runs
RefreshExit(r) ==
    /\ rf[r].st = "exit"
    /\ refreshing' = refreshDone(rf[r].key)
    /\ rf' = [rf EXCEPT ![r] = NoRid]
    /\ UNCHANGED <<now, cfg, cache, topics, pc, loc, gh, last>>
    /\ UNCHANGED <<brVars, auxVars>>

\* ========================================================== circuitBreaker
Closed == [failures |-> 0, openedAt |-> ZeroTime]

\* time.Since(t), in ticks; the zero Time lies further back than any cooldown
Since(t) ==
    IF t.isZero THEN MaxClock + Seconds(cfg.CircuitCooldown) + 1 ELSE now - t.t

\* what allow() returns on breaker b (lines 46-58)
allow_CooldownInclusive(b) ==
    \/ b.failures < cfg.CircuitFailLimit
    \/ Since(b.openedAt) >= Seconds(cfg.CircuitCooldown)

allow(b) ==
    \/ b.failures < cfg.CircuitFailLimit
    \/ Since(b.openedAt) > Seconds(cfg.CircuitCooldown)

\* the breaker after allow() (lines 49-57): an elapsed cooldown resets it
allowEffect_RefreshOnDeny(b) ==
    IF b.failures < cfg.CircuitFailLimit THEN b
    ELSE IF Since(b.openedAt) > Seconds(cfg.CircuitCooldown) THEN Closed
    ELSE [b EXCEPT !.openedAt = At(now)]

allowEffect(b) ==
    IF b.failures < cfg.CircuitFailLimit THEN b
    ELSE IF Since(b.openedAt) > Seconds(cfg.CircuitCooldown) THEN Closed
    ELSE b

\* the breaker after success() (lines 60-65)
success_KeepCount(b) == [b EXCEPT !.openedAt = ZeroTime]

success(b) == Closed

\* the breaker after fail() (lines 67-74)
fail(b) ==
    [failures |-> b.failures + 1,
     openedAt |-> IF b.failures + 1 >= cfg.CircuitFailLimit THEN At(now)
                  ELSE b.openedAt]

\* ================================================================ RunIntel
\* A caller of RunIntel: idle, before a try, in the wait after a failed try, or
\* back with its result (ok, err, out). tries counts the requests sent and wire
\* is the response the last one got (history).
RpIdle ==
    [st |-> "idle", attempt |-> 0, tries |-> 0, lastErr |-> "", ctxDone |-> FALSE,
     ok |-> FALSE, err |-> "", out |-> EmptyResp, wire |-> EmptyResp]

\* history: the breaker is open in the words of its contract: the failure count
\* has reached the threshold and no more than cooldown has elapsed since openedAt
Open(b) ==
    /\ b.failures >= cfg.CircuitFailLimit
    /\ ~b.openedAt.isZero
    /\ now - b.openedAt.t <= Seconds(cfg.CircuitCooldown)

\* history: a breaker failure is recorded: the length of the run of failures
\* (counted up to the threshold) and the instant it reached the threshold
RunAfterFail ==
    [n |-> IF run.n < cfg.CircuitFailLimit THEN run.n + 1 ELSE run.n,
     at |-> IF run.n + 1 = cfg.CircuitFailLimit THEN now ELSE run.at]

NoRun == [n |-> 0, at |-> 0]

\* the state of a caller whose RunIntel has returned
RReturned(r, ok, err, out, wire) ==
    [RpIdle EXCEPT !.st = "ret", !.tries = r.tries, !.ok = ok, !.err = err,
                   !.out = out, !.wire = wire]

TrialOver(p) == IF trial = p THEN "none" ELSE trial

\* the error of a failed try, by what went wrong on the wire
WireErr(w) ==
    CASE w = "transport" -> "transport error"
      [] w = "status" -> "python intel: 500"
      [] w = "decode" -> "decode error"

\* RunIntel up to the loop (lines 103-118): the breaker gate, then the request
\* that http.NewRequestWithContext refuses for a base URL that does not parse.
RunIntel(p) ==
    /\ rp[p].st = "idle"
    /\ cb' = allowEffect(cb)
    /\ IF ~allow(cb)
       THEN /\ rp' = [rp EXCEPT ![p] = RReturned(RpIdle, FALSE,
                            "python circuit breaker open", EmptyResp, EmptyResp)]
            /\ UNCHANGED trial
       ELSE IF ~cfg.PyBaseURLValid
       THEN /\ rp' = [rp EXCEPT ![p] = RReturned(RpIdle, FALSE, "parse url",
                                                  EmptyResp, EmptyResp)]
            /\ UNCHANGED trial
       ELSE /\ rp' = [rp EXCEPT ![p] = [RpIdle EXCEPT !.st = "try"]]
            /\ trial' = IF cb.failures >= cfg.CircuitFailLimit THEN p ELSE trial
    /\ UNCHANGED <<now, cfg, run, snapVars, auxVars>>

\* the caller has taken the result of its call
RunIntelReturn(p) ==
    /\ rp[p].st = "ret"
    /\ rp' = [rp EXCEPT ![p] = RpIdle]
    /\ UNCHANGED <<now, cfg, cb, trial, run, snapVars, auxVars>>

\* the caller's context is cancelled or its deadline passes
CtxDone(p) ==
    /\ rp[p].st \in {"try", "wait"}
    /\ ~rp[p].ctxDone
    /\ rp' = [rp EXCEPT ![p].ctxDone = TRUE]
    /\ UNCHANGED <<now, cfg, cb, trial, run, snapVars, auxVars>>

\* does the loop go on after the wait that follows failed attempt number a?
moreTries_OneMore(a) == a + 1 <= MaxAttempts

moreTries(a) == a + 1 < MaxAttempts

\* what a try whose response body was decoded in full returns (lines 163-165)
decodedReturn_Empty(r, body) == RReturned(r, TRUE, "", EmptyResp, body)

decodedReturn(r, body) == RReturned(r, TRUE, "", body, body)

\* the breaker after a try that failed (lines 128-129, 139-141, 151-153): the
\* try sets lastErr and goes to the wait; the breaker is not touched
failedTry_Records(b) == fail(b)

failedTry(b) == b

\* the select of the wait (lines 130-136): the timer is armed when the select
\* starts, so it ends the wait only if the context is not done before it fires
timerEndsWait_Always(r) == TRUE

timerEndsWait(r) == ~r.ctxDone

\* One try (lines 121-165): the request is sent and fails in transport, comes
\* back with a status >= 300, fails to decode, or is decoded in full. With the
\* context done the client returns an error.
Try(p) ==
    /\ rp[p].st = "try"
    /\ \E w \in {"transport", "status", "decode", "decoded"} :
        /\ rp[p].ctxDone => w = "transport"
        /\ IF w = "decoded"
           THEN /\ cb' = success(cb)
                /\ run' = NoRun
                /\ trial' = TrialOver(p)
                /\ \E body \in {r \in Resps : hasCacheableIntel(r)} :
                     rp' = [rp EXCEPT ![p] =
                              decodedReturn([rp[p] EXCEPT !.tries = @ + 1], body)]
           ELSE /\ rp' = [rp EXCEPT ![p].tries = @ + 1,
                                    ![p].lastErr = WireErr(w), ![p].st = "wait"]
                /\ cb' = failedTry(cb)
                /\ UNCHANGED <<run, trial>>
    /\ UNCHANGED <<now, cfg, snapVars, auxVars>>

\* the wait after a failed try ends by the context (lines 131-133, 143-145,
\* 155-157): one breaker failure, and the context's error
WaitCtxDone(p) ==
    /\ rp[p].st = "wait"
    /\ rp[p].ctxDone
    /\ cb' = fail(cb)
    /\ run' = RunAfterFail
    /\ trial' = TrialOver(p)
    /\ rp' = [rp EXCEPT ![p] = RReturned(rp[p], FALSE, "context canceled",
                                         EmptyResp, EmptyResp)]
    /\ UNCHANGED <<now, cfg, snapVars, auxVars>>

\* the wait ends by its timer (lines 134-135 and alike): the next attempt, or
\* after the last one the breaker failure and the last error (lines 168-169)
WaitTimer(p) ==
    /\ rp[p].st = "wait"
    /\ timerEndsWait(rp[p])
    /\ IF moreTries(rp[p].attempt)
       THEN /\ rp' = [rp EXCEPT ![p].attempt = @ + 1, ![p].st = "try"]
            /\ UNCHANGED <<cb, run, trial>>
       ELSE /\ cb' = fail(cb)
            /\ run' = RunAfterFail
            /\ trial' = TrialOver(p)
            /\ rp' = [rp EXCEPT ![p] = RReturned(rp[p], FALSE, rp[p].lastErr,
                                                 EmptyResp, EmptyResp)]
    /\ UNCHANGED <<now, cfg, snapVars, auxVars>>

\* ================================================================== topics
\* Subscribe, its unsubscribe closure and context watcher, and runTopic.
\* line 67: does this Subscribe register a topic and start its loop?
needsTopic_Always(k) == TRUE

needsTopic(k) == ~topics[k].present

FreeLoop == CHOOSE l \in Loops : lp[l].st = "none"

\* Subscribe under the lock (lines 60-75): the topic is looked up or created
\* with its loop, the new channel joins it, and topic.last is read.
Subscribe(s, k) ==
    /\ sub[s].st = "idle"
    /\ needsTopic(k) => \E l \in Loops : lp[l].st = "none"
    /\ LET create == needsTopic(k)
           t0 == IF create
                 THEN [present |-> TRUE, subs |-> {}, last |-> NilSnap,
                       loop |-> FreeLoop]
                 ELSE topics[k]
       IN /\ topics' = [topics EXCEPT ![k] = [t0 EXCEPT !.subs = @ \cup {s}]]
          /\ lp' = IF create
                   THEN [lp EXCEPT ![FreeLoop] =
                           [st |-> "call", key |-> k, cancelled |-> FALSE,
                            snap |-> NilSnap]]
                   ELSE lp
          /\ sub' = [sub EXCEPT ![s] =
                       [st |-> "locked", key |-> k, once |-> FALSE,
                        ctxDone |-> FALSE, watcher |-> "none", by |-> "none",
                        cap |-> t0.last, hadLast |-> FALSE]]
    /\ ch' = [ch EXCEPT ![s] = NewChan]
    /\ UNCHANGED <<now, cfg, cache, refreshing, rf, pc, loc, gh, last>>
    /\ UNCHANGED <<brVars, envVars>>

\* lines 77-82: the last snapshot read under the lock is offered to the channel
sendLast_Skip(buf, cap) == buf

sendLast(buf, cap) == IF cap # NilSnap THEN trySend(buf, cap) ELSE buf

\* Subscribe after the lock (lines 77-105): the send of the last snapshot, the
\* start of the context watcher, and the return.
SubscribeReturn(s) ==
    /\ sub[s].st = "locked"
    /\ ch' = [ch EXCEPT ![s].buf = sendLast(ch[s].buf, sub[s].cap)]
    /\ sub' = [sub EXCEPT ![s].st = "live", ![s].watcher = "waiting",
                           ![s].cap = NilSnap, ![s].hadLast = sub[s].cap # NilSnap]
    /\ UNCHANGED <<now, cfg, snapVars, brVars, envVars, lp>>

\* the subscriber's context is cancelled (the client disconnects)
CtxCancel(s) ==
    /\ sub[s].st \in {"locked", "live"}
    /\ ~sub[s].ctxDone
    /\ sub' = [sub EXCEPT ![s].ctxDone = TRUE]
    /\ UNCHANGED <<now, cfg, snapVars, brVars, envVars, ch, lp>>

\* once.Do (line 85): has the closure's body already run?
onceDone_Never(s) == FALSE

onceDone(s) == sub[s].once

\* lines 86-95: the topics after the body of unsubscribe
unsubscribeTopics_KeepsChannel(s) == topics

unsubscribeTopics_KeepsEmpty(s) ==
    LET k == sub[s].key
    IN IF ~topics[k].present THEN topics
       ELSE [topics EXCEPT ![k].subs = @ \ {s}]

unsubscribeTopics(s) ==
    LET k == sub[s].key
    IN IF ~topics[k].present THEN topics
       ELSE IF topics[k].subs \ {s} = {} THEN [topics EXCEPT ![k] = NoTopic]
       ELSE [topics EXCEPT ![k].subs = @ \ {s}]

\* line 91: t.cancel() when the topic is left without subscribers
unsubscribeLoops_Always(s) ==
    LET k == sub[s].key
    IN IF topics[k].present
       THEN [lp EXCEPT ![topics[k].loop].cancelled = TRUE]
       ELSE lp

unsubscribeLoops(s) ==
    LET k == sub[s].key
    IN IF topics[k].present /\ topics[k].subs \ {s} = {}
       THEN [lp EXCEPT ![topics[k].loop].cancelled = TRUE]
       ELSE lp

\* line 96: close(ch)
closeChan_Skip(c) == c

closeChan(c) == [c EXCEPT !.closes = @ + 1]

\* one call of the unsubscribe closure of s (lines 84-98)
unsubscribe(s) ==
    IF onceDone(s)
    THEN UNCHANGED <<topics, lp, ch>>
    ELSE /\ topics' = unsubscribeTopics(s)
         /\ lp' = unsubscribeLoops(s)
         /\ ch' = [ch EXCEPT ![s] = closeChan(ch[s])]

\* the caller of Subscribe calls unsubscribe (stream.go defers it), for the
\* first time or again
Unsubscribe(s) ==
    /\ sub[s].st = "live"
    /\ unsubscribe(s)
    /\ sub' = [sub EXCEPT ![s].once = TRUE,
                           ![s].by = IF sub[s].once THEN @ ELSE "caller"]
    /\ UNCHANGED <<now, cfg, cache, refreshing, rf, pc, loc, gh, last>>
    /\ UNCHANGED <<brVars, envVars>>

\* the context watcher (lines 100-103) wakes up and calls unsubscribe
Watcher(s) ==
    /\ sub[s].st = "live"
    /\ sub[s].watcher = "waiting"
    /\ sub[s].ctxDone
    /\ unsubscribe(s)
    /\ sub' = [sub EXCEPT ![s].once = TRUE, ![s].watcher = "done",
                           ![s].by = IF sub[s].once THEN @ ELSE "watcher"]
    /\ UNCHANGED <<now, cfg, cache, refreshing, rf, pc, loc, gh, last>>
    /\ UNCHANGED <<brVars, envVars>>

\* the subscriber reads its channel (stream.go line 204)
Receive(s) ==
    /\ sub[s].st = "live"
    /\ ch[s].buf # <<>>
    /\ ch' = [ch EXCEPT ![s].buf = <<>>]
    /\ sub' = [sub EXCEPT ![s].hadLast = FALSE]
    /\ UNCHANGED <<now, cfg, snapVars, brVars, envVars, lp>>

\* the request is over: unsubscribe has run and the watcher has finished
SubscriberGone(s) ==
    /\ sub[s].st = "live"
    /\ sub[s].once
    /\ sub[s].watcher = "done"
    /\ sub' = [sub EXCEPT ![s] = NoSub]
    /\ ch' = [ch EXCEPT ![s] = NewChan]
    /\ UNCHANGED <<now, cfg, snapVars, brVars, envVars, lp>>

\* ---------------------------------------------------------------- runTopic
\* lines 166-168: the select takes the cancelled context and the loop returns
LoopDone(l) ==
    /\ lp[l].st = "select"
    /\ lp[l].cancelled
    /\ lp' = [lp EXCEPT ![l] = NoLoop]
    /\ UNCHANGED <<now, cfg, snapVars, brVars, envVars, sub, ch>>

\* lines 169-170: the ticker fires, the select takes the tick (also when the
\* context is cancelled by then: select picks among the ready cases) and
\* publish() is entered
LoopTick(l) ==
    /\ lp[l].st = "select"
    /\ lp' = [lp EXCEPT ![l].st = "call"]
    /\ UNCHANGED <<now, cfg, snapVars, brVars, envVars, sub, ch>>

\* GetSnapshot as the loop calls it (line 156), in one step: the tier, what it
\* returns, the cache after it, whether the stale tier starts a refresh, and
\* whether an upstream call is started; o is the outcome of the upstream call
\* of the synchronous path.
SnapshotCall(k, o) ==
    LET g == getCached(k)
        t == Tier(g.ok, now - g.fetchedAt)
        l == [ok |-> g.ok, cached |-> g.resp, fetchedAt |-> g.fetchedAt]
    IN [tier |-> t,
        ret |-> IF t = "fresh" THEN FreshReturn(l)
                ELSE IF t = "stale" THEN StaleReturn(l)
                ELSE FetchReturn(l, fetchAndCacheOutcome(o)),
        items |-> IF t = "fetch" /\ o.ok /\ hasCacheableIntel(o.resp)
                  THEN fetchAndCacheItems(k, o)
                  ELSE cacheGetItems(k),
        start |-> t = "stale" /\ refreshStarts(k),
        up |-> t = "fetch" \/ (t = "stale" /\ refreshStarts(k))]

\* the upstream outcomes the loops meet: a response with a timestamp, or a
\* deadline with nothing decoded
TopicOutcomes ==
    {o \in RunIntelOutcomes :
        /\ o.resp.TsISO \in {<<>>, <<"T">>}
        /\ o.ok = (o.resp.TsISO # <<>>)
        /\ o.err # "python circuit breaker open"}

\* lines 154-159: GetSnapshot, and the return without publishing on an error
\* with an empty response
LoopGetSnapshot(l) ==
    /\ lp[l].st = "call"
    /\ \E o \in TopicOutcomes :
        LET k == lp[l].key
            r == SnapshotCall(k, o)
        IN /\ r.start => \E x \in Rids : rf[x].st = "none"
           /\ cache' = r.items
           /\ refreshing' = IF r.tier = "stale" THEN [refreshing EXCEPT ![k] = TRUE]
                            ELSE refreshing
           /\ rf' = IF r.start THEN [rf EXCEPT ![FreeRid] = [st |-> "run", key |-> k, reqDone |-> FALSE]]
                    ELSE rf
           /\ lp' = [lp EXCEPT ![l] =
                       IF ~r.ret.nilErr /\ r.ret.resp.TsISO = <<>>
                       THEN [@ EXCEPT !.st = "select"]
                       ELSE [@ EXCEPT !.st = "got",
                                      !.snap = [Resp |-> r.ret.resp,
                                                Meta |-> [Source |-> r.ret.Source,
                                                          Stale |-> r.ret.Stale,
                                                          Err |-> r.ret.Err,
                                                          FetchedAt |-> r.ret.FetchedAt]]]]
    /\ UNCHANGED <<now, cfg, topics, pc, loc, gh, last>>
    /\ UNCHANGED <<brVars, envVars, sub, ch>>

\* lines 160-161: the snapshot is published
LoopPublish(l) ==
    /\ lp[l].st = "got"
    /\ topics' = publish(lp[l].key, lp[l].snap)
    /\ ch' = publishSend(lp[l].key, lp[l].snap)
    /\ lp' = [lp EXCEPT ![l].st = "select", ![l].snap = NilSnap]
    /\ UNCHANGED <<now, cfg, cache, refreshing, rf, pc, loc, gh, last>>
    /\ UNCHANGED <<brVars, envVars, sub>>

\* ================================================================= limiter
\* newLimiter(perMin): no bucket, no clean-up yet
newLimiter(perMin) ==
    [perMin |-> perMin, buckets |-> [ip \in Ips |-> NoBucket],
     lastCleanup |-> ZeroTime]

\* now.After(bucket.reset)
windowOver_Inclusive(b, t) == t >= b.reset

windowOver(b, t) == t > b.reset

\* lines 103-110: at most once a minute every bucket past its reset is deleted
cleanup_EvictAll(l, t) ==
    IF l.lastCleanup.isZero \/ t - l.lastCleanup.t > TicksPerMin
    THEN [l EXCEPT !.buckets = [ip \in Ips |-> NoBucket],
                   !.lastCleanup = At(t)]
    ELSE l

cleanup(l, t) ==
    IF l.lastCleanup.isZero \/ t - l.lastCleanup.t > TicksPerMin
    THEN [l EXCEPT !.buckets =
                     [ip \in Ips |->
                        IF @[ip].present /\ windowOver(@[ip], t) THEN NoBucket
                        ELSE @[ip]],
                   !.lastCleanup = At(t)]
    ELSE l

\* line 111: the call opens a new window for ip (b is the bucket read at line 101)
opensWindow(l, ip, t) ==
    ~l.buckets[ip].present \/ windowOver(l.buckets[ip], t)

\* what Allow(ip) returns at time t
allowed(l, ip, t) ==
    opensWindow(l, ip, t) \/ l.buckets[ip].count < l.perMin

\* the limiter after Allow(ip) at time t
allowLimiter(l, ip, t) ==
    IF opensWindow(l, ip, t)
    THEN [cleanup(l, t) EXCEPT
            !.buckets[ip] = [present |-> TRUE, count |-> 1, reset |-> t + TicksPerMin]]
    ELSE IF l.buckets[ip].count >= l.perMin THEN cleanup(l, t)
    ELSE [cleanup(l, t) EXCEPT !.buckets[ip].count = @ + 1]

\* history: the window of ip after a call at time t. A window opens with the
\* first call made when no window is running and runs for a minute; n counts
\* its calls, up to one more than perMin.
Called(h, perMin, t, ok) ==
    LET open == ~h.called \/ t > h.start + TicksPerMin
    IN [called |-> TRUE,
        start |-> IF open THEN t ELSE h.start,
        n |-> IF open THEN 1
              ELSE IF h.n <= perMin THEN h.n + 1 ELSE h.n,
        ok |-> ok,
        afterDenial |-> IF open THEN h.called /\ ~h.ok ELSE h.afterDenial]

\* limiter.Allow(ip) (lines 97-121)
Allow(ip) ==
    /\ lim' = allowLimiter(lim, ip, lnow)
    /\ lh' = [lh EXCEPT ![ip] = Called(@, lim.perMin, lnow, allowed(lim, ip, lnow))]
    /\ UNCHANGED <<now, cfg, snapVars, brVars, topVars>>
    /\ UNCHANGED <<backend, lnow, kvVars, keyVars, newsVars>>

\* the limiter's clock advances
LimTick ==
    /\ lnow < MaxLimClock
    /\ lnow' = lnow + 1
    /\ UNCHANGED <<now, cfg, snapVars, brVars, topVars>>
    /\ UNCHANGED <<backend, lim, lh, kvVars, keyVars, newsVars>>

\* ========================================================= key-value cache
\* the values the callers of the cache store: two marshalled entries
CacheVals ==
    {[FetchedAt |-> 0, Resp |-> [TsISO |-> ts]] : ts \in {<<"T">>, <<"U">>}}

\* Cache.Set(key, val, ttl) on the MemoryCache; ttl in ticks, zero or negative
\* for an entry without expiry
CacheSet(k, v, ttl) ==
    /\ cache' = MemSetItems(k, v, ttl)
    /\ kv' = [kv EXCEPT ![k] = [set |-> TRUE, val |-> v, at |-> now, ttl |-> ttl]]
    /\ UNCHANGED <<now, cfg, refreshing, topics, rf, pc, loc, gh, last>>
    /\ UNCHANGED <<brVars, topVars, backend, limVars, got, keyVars, newsVars>>

\* Cache.Get(key) on the MemoryCache
CacheGet(k) ==
    /\ cache' = MemGetItems(k)
    /\ got' = [n |-> 1 - got.n, none |-> FALSE, key |-> k,
               found |-> MemGetFound(k),
               val |-> IF MemGetFound(k) THEN cache[k].val ELSE <<>>]
    /\ UNCHANGED <<now, cfg, refreshing, topics, rf, pc, loc, gh, last>>
    /\ UNCHANGED <<brVars, topVars, backend, limVars, kv, keyVars, newsVars>>

\* =============================================================== query key
\* Strings are sequences of characters. The watchlist entries tried:
WatchEntries == {<<>>, <<"a">>, <<"A">>, <<"b">>, <<"a", "B">>}

Timeframes == {<<"1", "h">>, <<"6", "h">>}

\* a []string: nil, or a sequence of strings
NilWatch == [isNil |-> TRUE, items |-> <<>>]

Watchlists ==
    {NilWatch} \cup
    {[isNil |-> FALSE, items |-> w] :
        w \in UNION {[1..n -> WatchEntries] : n \in 0..MaxWatch}}

Queries == [timeframe : Timeframes, newsTimespan : {<<"6", "h">>}, watch : Watchlists]

\* the byte of a character
Ord(c) ==
    CASE c = "," -> 44 [] c = "A" -> 65 [] c = "B" -> 66
      [] c = "a" -> 97 [] c = "b" -> 98 [] OTHER -> 0

\* strings.ToLower, character by character
ToLowerChar(c) == CASE c = "A" -> "a" [] c = "B" -> "b" [] OTHER -> c

ToLower(w) == [i \in 1..Len(w) |-> ToLowerChar(w[i])]

\* lines 288-294: the lower-cased entries, the empty ones left out
RECURSIVE safeWatch(_)
safeWatch(ws) ==
    IF ws = <<>> THEN <<>>
    ELSE IF Head(ws) = <<>> THEN safeWatch(Tail(ws))
    ELSE <<ToLower(Head(ws))>> \o safeWatch(Tail(ws))

\* x < y in the byte order of Go strings
RECURSIVE StrLess(_, _)
StrLess(x, y) ==
    IF y = <<>> THEN FALSE
    ELSE IF x = <<>> THEN TRUE
    ELSE IF Ord(Head(x)) # Ord(Head(y)) THEN Ord(Head(x)) < Ord(Head(y))
    ELSE StrLess(Tail(x), Tail(y))

\* w put into the sorted sequence ws
RECURSIVE Insert(_, _)
Insert(w, ws) ==
    IF ws = <<>> THEN <<w>>
    ELSE IF StrLess(Head(ws), w) THEN <<Head(ws)>> \o Insert(w, Tail(ws))
    ELSE <<w>> \o ws

sortStrings_None(ws) == ws

\* sort.Strings (line 295)
RECURSIVE sortStrings(_)
sortStrings(ws) ==
    IF ws = <<>> THEN <<>> ELSE Insert(Head(ws), sortStrings(Tail(ws)))

\* strings.Join(ws, ",")
RECURSIVE Join(_)
Join(ws) ==
    IF ws = <<>> THEN <<>>
    ELSE IF Len(ws) = 1 THEN Head(ws)
    ELSE Head(ws) \o <<",">> \o Join(Tail(ws))

\* sha1.Sum cut to its first bytes (line 296-297): a fixed function from byte
\* strings to a bounded number; a polynomial checksum stands for it
RECURSIVE sha1Sum8(_, _)
sha1Sum8(bs, h) ==
    IF bs = <<>> THEN h
    ELSE sha1Sum8(Tail(bs), (h * 31 + Ord(Head(bs))) % 65536)

\* hex.EncodeToString of the digest
HexDigits ==
    <<"0", "1", "2", "3", "4", "5", "6", "7", "8", "9", "a", "b", "c", "d", "e", "f">>

RECURSIVE Hex(_, _)
Hex(n, digits) ==
    IF digits = 0 THEN <<>>
    ELSE Hex(n \div 16, digits - 1) \o <<HexDigits[(n % 16) + 1]>>

\* intelCacheKey (lines 287-298): "intel:v2:" timeframe ":" news window ":" digest
intelCacheKey(timeframe, newsTimespan, watch) ==
    <<"i", "n", "t", "e", "l", ":", "v", "2", ":">> \o timeframe \o <<":">>
        \o newsTimespan \o <<":">>
        \o Hex(sha1Sum8(Join(sortStrings(safeWatch(watch.items))), 7), 4)

\* the keys of both queries are computed
ComputeKeys ==
    /\ keyOf = <<>>
    /\ keyOf' = [i \in 1..2 |->
                    intelCacheKey(qry[i].timeframe, qry[i].newsTimespan, qry[i].watch)]
    /\ UNCHANGED <<now, cfg, snapVars, brVars, topVars>>
    /\ UNCHANGED <<backend, limVars, kvVars, qry, newsVars>>

\* ============================================================ News handler
\* The page the handler builds from what GetSnapshot returned (news.go lines
\* 36-65): the top news of the response, or no item after an error or a
\* response without timestamp. fromFailure is history.
newsPage(ret) ==
    LET failed == ~ret.nilErr \/ ret.resp.TsISO = <<>>
    IN [Items |-> IF failed THEN "none" ELSE "TopNews", fromFailure |-> failed]

\* news.go lines 23-24: is the page found in the cache?
newsCached == backend = "memory" /\ npage.present /\ ~MemExpired(npage)

\* news.go lines 66-70: the entry after the handler's Set
newsSet(page) ==
    IF backend = "memory"
    THEN [present |-> TRUE, val |-> page, exp |-> At(now + Seconds(NewsTTL)),
          own |-> TRUE]
    ELSE npage

\* API.News for one query (news.go lines 12-72): the cached page, or a page
\* built from GetSnapshot for key k and written to the cache
News(k) ==
    IF newsCached
    THEN /\ nlast' = [none |-> FALSE, hit |-> TRUE, page |-> npage.val]
         /\ UNCHANGED <<now, cfg, snapVars, brVars, topVars>>
         /\ UNCHANGED <<backend, limVars, kvVars, keyVars, npage>>
    ELSE /\ \E o \in RunIntelOutcomes :
              LET r == SnapshotCall(k, o)
              IN /\ r.start => \E x \in Rids : rf[x].st = "none"
                 /\ cache' = r.items
                 /\ refreshing' = IF r.tier = "stale"
                                  THEN [refreshing EXCEPT ![k] = TRUE]
                                  ELSE refreshing
                 /\ rf' = IF r.start
                          THEN [rf EXCEPT ![FreeRid] =
                                  [st |-> "run", key |-> k, reqDone |-> FALSE]]
                          ELSE rf
                 /\ npage' = newsSet(newsPage(r.ret))
                 /\ nlast' = [none |-> FALSE, hit |-> FALSE,
                              page |-> newsPage(r.ret)]
         /\ UNCHANGED <<now, cfg, topics, pc, loc, gh, last>>
         /\ UNCHANGED <<brVars, topVars, backend, limVars, kvVars, keyVars>>

\* time passes
Tick ==
    /\ now < MaxClock
    /\ now' = now + 1
    /\ UNCHANGED <<cfg, snapVars, brVars, auxVars>>

Configs ==
    [CacheTTLIntel : 1..MaxSoftTTL, CacheTTLIntelHard : 0..MaxHardTTL,
     CircuitFailLimit : {1}, CircuitCooldown : {1}, PyBaseURLValid : {TRUE}]

TopicConfigs ==
    [CacheTTLIntel : {1}, CacheTTLIntelHard : {2},
     CircuitFailLimit : {1}, CircuitCooldown : {1}, PyBaseURLValid : {TRUE}]

BreakerConfigs ==
    [CacheTTLIntel : {1}, CacheTTLIntelHard : {1},
     CircuitFailLimit : 1..MaxFailLimit, CircuitCooldown : 1..MaxCooldown,
     PyBaseURLValid : BOOLEAN]

BreakerIdle ==
    /\ cb = Closed
    /\ rp = [p \in Callers |-> RpIdle]
    /\ trial = "none"
    /\ run = NoRun

LimIdle ==
    /\ lnow = 0
    /\ lim = newLimiter(1)
    /\ lh = [ip \in Ips |-> NoCalls]

KvIdle ==
    /\ kv = [k \in Keys |-> NoSet]
    /\ got = NoGot

NewsIdle ==
    /\ npage = NoItem
    /\ nlast = NoNews

KeyIdle ==
    /\ qry = <<>>
    /\ keyOf = <<>>

EnvIdle ==
    /\ backend = "memory"
    /\ LimIdle
    /\ KvIdle
    /\ KeyIdle
    /\ NewsIdle

TopicIdle ==
    /\ sub = [s \in Subs |-> NoSub]
    /\ ch = [s \in Subs |-> NewChan]
    /\ lp = [l \in Loops |-> NoLoop]

SnapIdle ==
    /\ cache = [k \in Keys |-> NoItem]
    /\ refreshing = [k \in Keys |-> FALSE]
    /\ topics = [k \in Keys |-> NoTopic]
    /\ rf = [r \in Rids |-> NoRid]
    /\ pc = [c \in Callers |-> "idle"]
    /\ loc = [c \in Callers |-> NoLoc]
    /\ gh = [c \in Callers |-> NoGh]
    /\ last = NoLast

Init ==
    /\ now = 0
    /\ cfg \in Configs
    /\ EnvIdle
    /\ BreakerIdle
    /\ TopicIdle
    /\ cache \in [Keys -> {NoItem, ForeignItem}]
    /\ refreshing = [k \in Keys |-> FALSE]
    /\ topics = [k \in Keys |-> NoTopic]
    /\ rf = [r \in Rids |-> NoRid]
    /\ pc = [c \in Callers |-> "idle"]
    /\ loc = [c \in Callers |-> NoLoc]
    /\ gh = [c \in Callers |-> NoGh]
    /\ last = NoLast

Next ==
    \/ \E c \in Callers, k \in Keys : GetSnapshot(c, k)
    \/ \E c \in Callers : refreshAsync(c)
    \/ \E c \in Callers : GetSnapshotFetch(c)
    \/ \E r \in Rids : RefreshFetch(r)
    \/ \E r \in Rids : RefreshPublish(r)
    \/ \E r \in Rids : RefreshExit(r)
    \/ Tick

Spec == Init /\ [][Next]_vars

\* GetSnapshot and the refreshes it starts, while the requests that started
\* them end
NextDetached ==
    \/ Next
    \/ \E r \in Rids : RequestDone(r)

SpecDetached == Init /\ [][NextDetached]_vars

\* GetSnapshot with a stale tier, the refresh goroutines being scheduled: their
\* upstream call returns by its timeout at the latest, and the locks they take
\* are released
InitStaleTier == Init /\ cfg \in TopicConfigs

SpecRefreshFair ==
    /\ InitStaleTier
    /\ [][Next]_vars
    /\ \A r \in Rids :
         WF_vars(RefreshFetch(r)) /\ WF_vars(RefreshPublish(r)) /\ WF_vars(RefreshExit(r))

\* the circuit breaker and RunIntel, called by concurrent goroutines
InitBreaker ==
    /\ now = 0
    /\ cfg \in BreakerConfigs
    /\ EnvIdle
    /\ BreakerIdle
    /\ TopicIdle
    /\ SnapIdle

NextBreaker ==
    \/ \E p \in Callers : RunIntel(p)
    \/ \E p \in Callers : RunIntelReturn(p)
    \/ \E p \in Callers : CtxDone(p)
    \/ \E p \in Callers : Try(p)
    \/ \E p \in Callers : WaitCtxDone(p)
    \/ \E p \in Callers : WaitTimer(p)
    \/ Tick

SpecBreaker == InitBreaker /\ [][NextBreaker]_vars

\* the limiter under calls from several IPs
InitLimiter ==
    /\ now = 0
    /\ cfg \in BreakerConfigs
    /\ backend = "memory"
    /\ lnow = 0
    /\ \E perMin \in 1..MaxPerMin : lim = newLimiter(perMin)
    /\ lh = [ip \in Ips |-> NoCalls]
    /\ KvIdle
    /\ KeyIdle
    /\ NewsIdle
    /\ BreakerIdle
    /\ SnapIdle
    /\ TopicIdle

NextLimiter ==
    \/ \E ip \in Ips : Allow(ip)
    \/ LimTick

SpecLimiter == InitLimiter /\ [][NextLimiter]_vars

\* the service over a cache that is down, or without a cache
InitNoCache ==
    /\ now = 0
    /\ cfg \in Configs
    /\ backend \in {"down", "nil"}
    /\ LimIdle
    /\ KvIdle
    /\ KeyIdle
    /\ NewsIdle
    /\ BreakerIdle
    /\ SnapIdle
    /\ TopicIdle

NextNoCache ==
    \/ \E c \in Callers, k \in Keys : GetSnapshot(c, k)
    \/ \E c \in Callers : GetSnapshotFetch(c)
    \/ Tick

SpecNoCache == InitNoCache /\ [][NextNoCache]_vars

\* the key of two queries
InitKey ==
    /\ now = 0
    /\ cfg \in TopicConfigs
    /\ backend = "memory"
    /\ LimIdle
    /\ KvIdle
    /\ qry \in [1..2 -> Queries]
    /\ keyOf = <<>>
    /\ NewsIdle
    /\ BreakerIdle
    /\ SnapIdle
    /\ TopicIdle

NextKey == ComputeKeys

SpecKey == InitKey /\ [][NextKey]_vars

\* the MemoryCache under Set and Get while time passes
InitCache ==
    /\ now = 0
    /\ cfg \in TopicConfigs
    /\ EnvIdle
    /\ BreakerIdle
    /\ SnapIdle
    /\ TopicIdle

NextCache ==
    \/ \E k \in Keys, v \in CacheVals, ttl \in -1..MaxTTL : CacheSet(k, v, ttl)
    \/ \E k \in Keys : CacheGet(k)
    \/ Tick

SpecCache == InitCache /\ [][NextCache]_vars

\* the topics: subscribers come and go while the loops publish
InitTopic ==
    /\ now = 0
    /\ cfg \in TopicConfigs
    /\ EnvIdle
    /\ BreakerIdle
    /\ SnapIdle
    /\ TopicIdle

NextTopic ==
    \/ \E s \in Subs, k \in Keys : Subscribe(s, k)
    \/ \E s \in Subs : SubscribeReturn(s)
    \/ \E s \in Subs : CtxCancel(s)
    \/ \E s \in Subs : Unsubscribe(s)
    \/ \E s \in Subs : Watcher(s)
    \/ \E s \in Subs : Receive(s)
    \/ \E s \in Subs : SubscriberGone(s)
    \/ \E l \in Loops : LoopDone(l)
    \/ \E l \in Loops : LoopTick(l)
    \/ \E l \in Loops : LoopGetSnapshot(l)
    \/ \E l \in Loops : LoopPublish(l)

SpecTopic == InitTopic /\ [][NextTopic]_vars

\* a topic whose loop finds its cache entry stale as time passes and starts
\* background refreshes, which publish to the topic
NextRefresh ==
    \/ \E k \in Keys : Subscribe("s1", k)
    \/ SubscribeReturn("s1")
    \/ Receive("s1")
    \/ \E l \in Loops : LoopTick(l)
    \/ \E l \in Loops : LoopGetSnapshot(l)
    \/ \E l \in Loops : LoopPublish(l)
    \/ \E r \in Rids : RefreshFetch(r)
    \/ \E r \in Rids : RefreshPublish(r)
    \/ \E r \in Rids : RefreshExit(r)
    \/ Tick

SpecRefresh == InitTopic /\ [][NextRefresh]_vars

\* the News handler over GetSnapshot and the cache, while time passes
NextNews ==
    \/ \E k \in Keys : News(k)
    \/ \E r \in Rids : RefreshFetch(r)
    \/ \E r \in Rids : RefreshPublish(r)
    \/ \E r \in Rids : RefreshExit(r)
    \/ Tick

SpecNews == InitTopic /\ [][NextNews]_vars

\* the same, with the goroutines that are ready to run being scheduled: a
\* Subscribe past its lock returns, and a watcher whose context is done runs
SpecTopicFair ==
    /\ InitTopic
    /\ [][NextTopic]_vars
    /\ \A s \in Subs : WF_vars(SubscribeReturn(s)) /\ WF_vars(Watcher(s))

\* ================================================================= claims
\* the calls of the callers in B are finished, took the stale tier, and each
\* overlapped every other one in time
StaleBatch(B) ==
    \A c \in B :
        /\ pc[c] = "idle"
        /\ gh[c].tier = "stale"
        /\ \A d \in B \ {c} : d \in gh[c].overlap /\ c \in gh[d].overlap

RefreshesStartedBy(B) == Cardinality({c \in B : gh[c].spawned})

\* C1: N >= 1 concurrent GetSnapshot calls that all found the entry in the stale
\* window caused exactly one upstream call: at most one of them started a
\* refresh, and when none did, each found one in flight.
C1_OneUpstreamCallPerStaleBatch ==
    \A B \in (SUBSET Callers) \ {{}} :
        StaleBatch(B) =>
            /\ RefreshesStartedBy(B) <= 1
            /\ RefreshesStartedBy(B) = 0 => \A c \in B : gh[c].inflight

\* C2: a GetSnapshot that found a usable entry with softTTL < age <= hardTTL
\* returned that entry with source=stale_cache, stale=true and a nil error,
\* made no upstream call of its own, and started a background refresh exactly
\* when none was in flight for the key.
C2_StaleTierReturn ==
    (last.ok /\ last.window = "stale") =>
        /\ last.Source = "stale_cache"
        /\ last.Stale
        /\ last.nilErr
        /\ last.Err = ""
        /\ last.respIsCached
        /\ last.atIsCached
        /\ last.upstream = "none"
        /\ last.spawned <=> ~last.inflight

C2_Witness ==
    /\ last.ok
    /\ last.window = "stale"
    /\ last.inflight
    /\ ~last.spawned
    /\ last.Source = "stale_cache"

\* C3: a GetSnapshot that finds a usable entry with age <= softTTL returns it
\* with source=cache, stale=false and a nil error, and the call makes no
\* upstream call, starts no refresh and leaves the cache as it is.
C3_FreshTierFrame ==
    [][(last' # last /\ last'.ok /\ last'.window = "soft") =>
            /\ last'.Source = "cache"
            /\ ~last'.Stale
            /\ last'.nilErr
            /\ last'.Err = ""
            /\ last'.respIsCached
            /\ last'.atIsCached
            /\ last'.upstream = "none"
            /\ ~last'.spawned
            /\ pc[last'.c] = "idle"
            /\ cache' = cache
            /\ refreshing' = refreshing
            /\ rf' = rf]_vars

C3_Witness ==
    /\ last.ok
    /\ last.window = "soft"
    /\ last.Source = "cache"
    /\ \E r \in Rids : rf[r].st = "run"

\* C4: when the entry is older than hardTTL or absent, GetSnapshot calls the
\* upstream synchronously; on failure it returns the old value with
\* source=stale_cache, stale=true, the upstream error text and a nil error if
\* the lookup had found an entry, and source=error with the error only if not.
C4_SyncFetchFallback ==
    (last.tier # "none" /\ (~last.ok \/ last.window = "expired")) =>
        /\ last.upstream # "none"
        /\ (last.upstream = "fail" /\ last.ok) =>
                /\ last.Source = "stale_cache"
                /\ last.Stale
                /\ last.Err = last.upErr
                /\ last.Err # ""
                /\ last.nilErr
                /\ last.respIsCached
                /\ last.atIsCached
        /\ (last.upstream = "fail" /\ ~last.ok) =>
                /\ last.Source = "error"
                /\ ~last.nilErr
                /\ last.Err = last.upErr
        /\ last.Source = "error" => (~last.ok /\ last.upstream = "fail")

C4_Witness ==
    /\ last.ok
    /\ last.window = "expired"
    /\ last.upstream = "fail"
    /\ last.Source = "stale_cache"
    /\ last.Err = "python circuit breaker open"

\* C5: GetSnapshot returns a non-nil error (source=error) only when no usable
\* entry was found and the upstream call failed; whenever a usable entry was
\* found, the outcome of every tier is returned with a nil error.
C5_ErrorOnlyWithoutEntry ==
    /\ ~last.nilErr => (~last.ok /\ last.upstream = "fail" /\ last.Source = "error")
    /\ last.Source = "error" => ~last.nilErr
    /\ last.ok => (last.nilErr /\ last.Source \in {"cache", "stale_cache", "fresh"})

C5_Witness ==
    /\ ~last.nilErr
    /\ last.Source = "error"
    /\ last.sawBlank

\* C6: every entry the service has written to the cache holds a response whose
\* TsISO is not blank, and a stored entry with a blank TsISO is a miss on read.
C6_CacheNotPoisoned ==
    /\ \A k \in Keys :
            (cache[k].present /\ cache[k].own) => ~Blank(cache[k].val.Resp.TsISO)
    /\ \A c \in Callers : loc[c].sawBlank => (~loc[c].ok /\ pc[c] = "fetch")
    /\ last.sawBlank => (~last.ok /\ last.upstream # "none")

C6_Witness ==
    /\ last.sawBlank
    /\ last.upstream = "ok"
    /\ last.Source = "fresh"
    /\ \E k \in Keys : cache[k].present /\ ~cache[k].own

BreakerOpenErr == "python circuit breaker open"

\* caller p enters RunIntel in this step, which is where allow() is called
CallsAllow(p) == rp[p].st = "idle" /\ rp'[p].st # "idle"

Denied(r) == r.st = "ret" /\ ~r.ok /\ r.err = BreakerOpenErr

\* C7: allow() returns false exactly when failures >= threshold and no more than
\* cooldown has elapsed since openedAt; when it returns true after the cooldown
\* it resets failures to 0; and from the threshold-th failure of a run without
\* success the breaker denies until cooldown has elapsed.
C7_AllowFalseExactlyWhenOpen ==
    /\ [][\A p \in Callers : CallsAllow(p) =>
            /\ Denied(rp'[p]) <=> Open(cb)
            /\ (~Open(cb) /\ cb.failures >= cfg.CircuitFailLimit) =>
                    (cb'.failures = 0 /\ cb'.openedAt.isZero)
            /\ cb.failures < cfg.CircuitFailLimit => cb' = cb]_vars
    /\ []((run.n >= cfg.CircuitFailLimit
                /\ now - run.at <= Seconds(cfg.CircuitCooldown)) => Open(cb))

C7_Witness ==
    /\ \E p \in Callers : Denied(rp[p])
    /\ run.n >= cfg.CircuitFailLimit
    /\ now - run.at = Seconds(cfg.CircuitCooldown)
    /\ cfg.CircuitFailLimit > 1

\* C8: after the cooldown has elapsed allow() returns true once as a trial, and
\* the allow() calls made before the trial's outcome is recorded return false.
C8_TrialAdmitsOnce ==
    [][\A p \in Callers : (CallsAllow(p) /\ trial # "none") => Denied(rp'[p])]_vars

\* C9: when the breaker denies the call, RunIntel returns the breaker-open error
\* without a network try and leaves failures and openedAt as they are; no other
\* return carries that error.
C9_DeniedCallFailsFast ==
    [][\A p \in Callers :
            /\ (CallsAllow(p) /\ Open(cb)) =>
                    /\ Denied(rp'[p])
                    /\ rp'[p].tries = 0
                    /\ cb' = cb
            /\ (rp[p].st # "ret" /\ rp'[p].st = "ret" /\ rp'[p].err = BreakerOpenErr) =>
                    (rp[p].st = "idle" /\ Open(cb) /\ rp'[p].tries = 0)]_vars

C9_Witness ==
    \E p, q \in Callers :
        /\ Denied(rp[p])
        /\ rp[p].tries = 0
        /\ rp[q].st = "wait"
        /\ Open(cb)

Members(k) ==
    {s \in Subs : sub[s].st \in {"locked", "live"} /\ sub[s].key = k /\ ~sub[s].once}

\* the loops started for key k and not cancelled
LoopsFor(k) ==
    {l \in Loops : lp[l].st # "none" /\ lp[l].key = k /\ ~lp[l].cancelled}

\* C11: however the Subscribe calls for a key interleave, the key has one
\* registered topic with one running loop, and every subscriber of the key is a
\* member of that topic; a key without subscribers has neither topic nor loop.
C11_OneTopicOneLoop ==
    \A k \in Keys :
        IF Members(k) = {}
        THEN ~topics[k].present /\ LoopsFor(k) = {}
        ELSE /\ topics[k].present
             /\ topics[k].subs = Members(k)
             /\ LoopsFor(k) = {topics[k].loop}

\* two Subscribe calls for one key are both past the lock and not yet returned
C11_Witness ==
    \E k \in Keys :
        /\ Members(k) = Subs
        /\ \A s \in Subs : sub[s].st = "locked"
        /\ Cardinality(LoopsFor(k)) = 1

\* the step in which the body of unsubscribe runs for the last member of a topic
LastLeaves(s) ==
    /\ ~sub[s].once /\ sub'[s].once
    /\ topics[sub[s].key].present
    /\ topics[sub[s].key].subs = {s}

\* would a GetSnapshot for key k, called now, start an upstream call: the
\* synchronous fetch, or the refresh of the stale tier
StartsUpstream(k) ==
    LET g == getCached(k)
        t == Tier(g.ok, now - g.fetchedAt)
    IN t = "fetch" \/ (t = "stale" /\ ~refreshing[k])

\* the step in which loop l makes its GetSnapshot call
LoopCalls(l) == lp[l].st = "call" /\ lp'[l].st # "call"

\* C12: when the last subscriber of a key unsubscribes the topic is removed
\* and its loop cancelled, and a cancelled loop starts no upstream call while
\* the key has no subscriber.
C12_NoUpstreamWithoutSubscribers ==
    /\ [][\A s \in Subs :
            LastLeaves(s) =>
                /\ ~topics'[sub[s].key].present
                /\ lp'[topics[sub[s].key].loop].cancelled]_vars
    /\ [][\A l \in Loops :
            (LoopCalls(l) /\ StartsUpstream(lp[l].key)) =>
                (~lp[l].cancelled \/ topics[lp[l].key].present)]_vars

\* C13: a Subscribe that read a last snapshot under the lock returns with a
\* snapshot in its channel: that last one, or one a publish put there since
\* the channel (empty when it joined) became a member.
C13_LastSnapshotOnJoin ==
    /\ [][\A s \in Subs :
            (sub[s].st = "idle" /\ sub'[s].st = "locked") => ch'[s].buf = <<>>]_vars
    /\ [][\A s \in Subs :
            (sub[s].st = "locked" /\ sub'[s].st = "live" /\ sub[s].cap # NilSnap) =>
                \/ ch'[s].buf = <<sub[s].cap>>
                \/ ch[s].buf # <<>> /\ ch'[s].buf = ch[s].buf]_vars

\* a Subscribe that found a last snapshot has returned, its channel unread
C13_Witness ==
    \E s \in Subs : sub[s].st = "live" /\ sub[s].hadLast /\ ch[s].buf # <<>>

\* the step in which loop l publishes the snapshot it holds
LoopPublishes(l) == lp[l].st = "got" /\ lp'[l].st = "select"

\* C14: a publish is always able to complete; it sets the topic's last
\* snapshot, fills every member's empty buffer, leaves every full buffer as
\* it is, and touches no other channel.
C14_PublishNeverBlocks ==
    /\ [](\A l \in Loops : lp[l].st = "got" => ENABLED LoopPublish(l))
    /\ [][\A l \in Loops :
            (LoopPublishes(l) /\ topics[lp[l].key].present) =>
                LET t == topics[lp[l].key]
                IN /\ topics'[lp[l].key].last = lp[l].snap
                   /\ topics'[lp[l].key].subs = t.subs
                   /\ \A s \in Subs :
                        ch'[s] = IF s \in t.subs /\ ch[s].buf = <<>>
                                 THEN [ch[s] EXCEPT !.buf = <<lp[l].snap>>]
                                 ELSE ch[s]]_vars

\* one member holds the topic's last snapshot while another still holds an
\* earlier one in its full buffer
C14_Witness ==
    \E k \in Keys : \E s, t \in Subs :
        /\ topics[k].present
        /\ {s, t} \subseteq topics[k].subs
        /\ ch[t].buf = <<topics[k].last>>
        /\ ch[s].buf # <<>>
        /\ ch[s].buf # ch[t].buf

\* C15: a call of unsubscribe after its body has run, by the caller or by the
\* context watcher, changes no topic, no loop and no channel.
C15_UnsubscribeIdempotent ==
    [][\A s \in Subs :
        (sub[s].once /\ (Unsubscribe(s) \/ Watcher(s))) =>
            UNCHANGED <<topics, lp, ch>>]_vars

\* the watcher has called unsubscribe after the caller did, while a topic
\* created later for the same key is registered
C15_Witness ==
    \E s \in Subs :
        /\ sub[s].by = "caller"
        /\ sub[s].watcher = "done"
        /\ ch[s].closes = 1
        /\ topics[sub[s].key].present

\* has the subscriber s left its topic, with its channel closed?
RemovedAndClosed(s) ==
    /\ sub[s].st = "live"
    /\ ~(topics[sub[s].key].present /\ s \in topics[sub[s].key].subs)
    /\ ch[s].closes > 0

\* C16: once a subscriber's context is cancelled, the subscriber is eventually
\* out of its topic with its channel closed, whether or not the caller ever
\* calls unsubscribe.
C16_CancelledContextUnsubscribes ==
    \A s \in Subs : sub[s].ctxDone ~> RemovedAndClosed(s)

\* the watcher, not the caller, has removed a subscriber and closed its channel
C16_Witness ==
    \E s \in Subs :
        /\ sub[s].ctxDone
        /\ sub[s].by = "watcher"
        /\ RemovedAndClosed(s)
        /\ ch[s].closes = 1

InForce(h, t) == h.set /\ (h.ttl <= 0 \/ t <= h.at + h.ttl)

\* C18: a Get returns the value of the key's most recent Set while that entry
\* is in force (always, for a ttl of zero or less) and leaves the cache as it
\* is; otherwise (never set, or expired) it returns not-found and the key has
\* no entry afterwards.
C18_GetReturnsLatestSet ==
    [][got'.n # got.n =>
        IF InForce(kv[got'.key], now)
        THEN got'.found /\ got'.val = kv[got'.key].val /\ cache' = cache
        ELSE ~got'.found /\ ~cache'[got'.key].present]_vars

\* a Get has found a key expired and deleted its entry
C18_Witness ==
    /\ ~got.none
    /\ ~got.found
    /\ kv[got.key].set
    /\ kv[got.key].ttl > 0
    /\ now > kv[got.key].at + kv[got.key].ttl
    /\ ~cache[got.key].present

\* C19: over a cache whose calls fail, or without a cache, every GetSnapshot
\* makes its own upstream call, returns source "fresh" and a nil error when
\* that call succeeds, and returns an error exactly when it fails.
C19_CacheFailureNotSurfaced ==
    last.c # "" =>
        /\ last.upstream # "none"
        /\ last.upstream = "ok" => (last.Source = "fresh" /\ last.nilErr /\ last.Err = "")
        /\ ~last.nilErr <=> last.upstream = "fail"

\* some time after the start, a GetSnapshot over the failing cache has
\* returned a fresh response
C19_Witness ==
    /\ backend = "down"
    /\ now > 0
    /\ last.c # ""
    /\ last.upstream = "ok"
    /\ last.Source = "fresh"

\* the same string up to the case of its letters
SameLetters(x, y) ==
    /\ Len(x) = Len(y)
    /\ \A i \in 1..Len(x) :
          x[i] = y[i] \/ {x[i], y[i]} \in {{"a", "A"}, {"b", "B"}}

\* watchlists with the same entries up to their order and the case of letters
SameWatch(v, w) ==
    /\ Len(v.items) = Len(w.items)
    /\ \E f \in [1..Len(v.items) -> 1..Len(w.items)] :
          /\ \A i, j \in 1..Len(v.items) : f[i] = f[j] => i = j
          /\ \A i \in 1..Len(v.items) : SameLetters(v.items[i], w.items[f[i]])

\* C20: two queries with the same timeframe and news window whose watchlists
\* have the same entries up to order and letter case (a nil watchlist counting
\* as an empty one) get the same key.
C20_KeyIgnoresOrderAndCase ==
    keyOf # <<>> =>
        ((/\ qry[1].timeframe = qry[2].timeframe
          /\ qry[1].newsTimespan = qry[2].newsTimespan
          /\ SameWatch(qry[1].watch, qry[2].watch)) => keyOf[1] = keyOf[2])

\* two watchlists of two entries, in different order and case, got one key
C20_Witness ==
    /\ keyOf # <<>>
    /\ qry[1].timeframe = qry[2].timeframe
    /\ SameWatch(qry[1].watch, qry[2].watch)
    /\ Len(qry[1].watch.items) = 2
    /\ \A i \in 1..2 : qry[1].watch.items[i] # qry[2].watch.items[i]
    /\ \E i \in 1..2 : ~SameLetters(qry[1].watch.items[i], qry[2].watch.items[i])
    /\ keyOf[1] = keyOf[2]

\* the refresh goroutines of key k that have not finished
RefreshesInFlight(k) == {r \in Rids : rf[r].st # "none" /\ rf[r].key = k}

\* C21: for every key at most one refresh started by refreshAsync is in
\* flight, and the key's refresh flag is set for as long as it is.
C21_OneRefreshInFlight ==
    \A k \in Keys :
        /\ Cardinality(RefreshesInFlight(k)) <= 1
        /\ RefreshesInFlight(k) # {} => refreshing[k]

\* a stale-tier call has found the flag set by a refresh still in flight and
\* started none
C21_Witness ==
    /\ last.c # ""
    /\ last.tier = "stale"
    /\ last.inflight
    /\ ~last.spawned
    /\ \E k \in Keys : RefreshesInFlight(k) # {}

\* the upstream calls for key k in flight: the synchronous fetches of
\* GetSnapshot callers and the fetches of refresh goroutines
UpstreamInFlight(k) ==
    Cardinality({c \in Callers : pc[c] = "fetch" /\ loc[c].key = k})
        + Cardinality({r \in Rids : rf[r].st = "run" /\ rf[r].key = k})

\* C22: at no time are two upstream calls for one key in flight.
C22_SingleFlightPerKey ==
    \A k \in Keys : UpstreamInFlight(k) <= 1

\* caller p's RunIntel records a breaker failure and returns in this step
RecordsFailure(p) == rp[p].st = "wait" /\ rp'[p].st = "ret"

\* caller p's RunIntel records a breaker success and returns in this step
RecordsSuccess(p) == rp[p].st = "try" /\ rp'[p].st = "ret"

\* C25: a failure recorded while the breaker is open leaves openedAt as it
\* was, and allow() returns true once cooldown has elapsed since the instant
\* the run of failures reached the threshold.
C25_FailureWhileOpenKeepsOpenedAt ==
    /\ [][\A p \in Callers :
            (Open(cb) /\ RecordsFailure(p)) =>
                /\ cb'.openedAt = cb.openedAt
                /\ cb'.failures = cb.failures + 1]_vars
    /\ []((run.n >= cfg.CircuitFailLimit
             /\ now - run.at > Seconds(cfg.CircuitCooldown)) => allow(cb))

\* C26: the trial call admitted after a cooldown decides the breaker's next
\* state: its success leaves the breaker closed, its failure leaves it open,
\* with allow() false.
C26_TrialDecidesNextState ==
    [][\A p \in Callers :
          /\ (trial = p /\ RecordsSuccess(p)) => cb' = Closed
          /\ (trial = p /\ RecordsFailure(p)) =>
                (Open(cb)' /\ ~allow(cb)')]_vars

\* C27: success() resets the failure count and openedAt whatever the breaker
\* held, so the count reaches the threshold, and allow() can return false,
\* only after a run of threshold failures with no success in between.
C27_SuccessResets ==
    /\ [][\A p \in Callers : RecordsSuccess(p) => cb' = Closed]_vars
    /\ [](run.n < cfg.CircuitFailLimit =>
            (cb.failures < cfg.CircuitFailLimit /\ allow(cb)))

\* a recorded failure followed by a success: one caller is back with a
\* failure the breaker counted, another with a success, the count is 0 again
C27_Witness ==
    /\ cfg.CircuitFailLimit >= 2
    /\ cb = Closed
    /\ run.n = 0
    /\ \E p, q \in Callers :
         /\ rp[p].st = "ret" /\ ~rp[p].ok /\ rp[p].tries >= 1
         /\ rp[q].st = "ret" /\ rp[q].ok

C29_ContextEndsWait ==
    [][\A p \in Callers :
          (rp[p].st = "wait" /\ rp[p].ctxDone /\ rp'[p] # rp[p]) =>
              /\ rp'[p].st = "ret"
              /\ rp'[p].tries = rp[p].tries
              /\ ~rp'[p].ok
              /\ rp'[p].err = "context canceled"
              /\ cb'.failures = cb.failures + 1]_vars

\* a call is back with the context's error before it has used up its tries
C29_Witness ==
    \E p \in Callers :
        /\ rp[p].st = "ret"
        /\ rp[p].err = "context canceled"
        /\ rp[p].tries < MaxAttempts
        /\ cb.failures >= 1

\* C30: the snapshot a subscriber of a topic reads next from its channel is
\* the one most recently published to the topic.
C30_LatestValue ==
    \A k \in Keys : \A s \in Subs :
        (topics[k].present /\ s \in topics[k].subs /\ ch[s].buf # <<>>) =>
            ch[s].buf[1] = topics[k].last

\* refresh goroutine r comes back from fetchAndCache in this step
RefreshFetched(r) == rf[r].st = "run" /\ rf'[r].st # "run"

\* refresh goroutine r calls publish in this step
RefreshPublishes(r) == rf[r].st = "publish" /\ rf'[r].st = "exit"

\* C23: a refresh that got a cacheable response has written it to the cache
\* and publishes it to the topic registered for its key; a refresh that failed
\* or got a response without timestamp changes no cache entry, no topic's last
\* snapshot and no channel.
C23_RefreshEffects ==
    [][\A r \in Rids :
          /\ RefreshFetched(r) =>
                IF rf'[r].st = "publish" /\ hasCacheableIntel(rf'[r].snap.Resp)
                THEN /\ cache'[rf[r].key].present
                     /\ cache'[rf[r].key].val.Resp = rf'[r].snap.Resp
                ELSE cache' = cache
          /\ RefreshPublishes(r) =>
                IF hasCacheableIntel(rf[r].snap.Resp)
                THEN topics[rf[r].key].present =>
                        topics'[rf[r].key].last = rf[r].snap
                ELSE UNCHANGED <<topics, ch>>]_vars

\* refresh r comes back from fetchAndCache with a response it has cached
RefreshCaches(r) ==
    /\ RefreshFetch(r)
    /\ rf'[r].st = "publish"
    /\ cache'[rf[r].key].present
    /\ cache'[rf[r].key].val.Resp = rf'[r].snap.Resp
    /\ cache'[rf[r].key].val.FetchedAt = FormatRFC3339(now)

\* C24: the end of the request that started a refresh changes nothing but the
\* request: the refresh is still running and can still complete with a
\* response that it writes to the cache.
C24_RefreshOutlivesRequest ==
    \A r \in Rids :
        (rf[r].st = "run" /\ rf[r].reqDone) => ENABLED RefreshCaches(r)

\* a refresh has written the cache after the request that started it ended
C24_Witness ==
    \E r \in Rids :
        /\ rf[r].st = "publish"
        /\ rf[r].reqDone
        /\ cache[rf[r].key].present
        /\ cache[rf[r].key].val.Resp = rf[r].snap.Resp
        /\ hasCacheableIntel(rf[r].snap.Resp)

\* the step in which the body of unsubscribe runs for s, a member of a topic
\* that has other members
LeavesOthers(s) ==
    /\ ~sub[s].once /\ sub'[s].once
    /\ topics[sub[s].key].present
    /\ s \in topics[sub[s].key].subs
    /\ topics[sub[s].key].subs # {s}

\* C31: a subscriber leaving a topic that has other subscribers is removed
\* and its channel closed; the topic stays registered with its last snapshot
\* and the other members, no loop is cancelled, and no other channel changes.
C31_LeavingSparesTheOthers ==
    [][\A s \in Subs :
          LeavesOthers(s) =>
              LET k == sub[s].key
              IN /\ topics' = [topics EXCEPT ![k].subs = @ \ {s}]
                 /\ lp' = lp
                 /\ ch'[s].closes = ch[s].closes + 1
                 /\ \A t \in Subs \ {s} : ch'[t] = ch[t]]_vars

\* one subscriber has left; the other is still a member with an open channel
\* that holds the topic's last snapshot, and the topic's loop is running
C31_Witness ==
    \E k \in Keys : \E s, t \in Subs :
        /\ sub[s].key = k /\ sub[s].once /\ ch[s].closes = 1
        /\ topics[k].present
        /\ topics[k].subs = {t}
        /\ ch[t].closes = 0
        /\ ch[t].buf = <<topics[k].last>>
        /\ ch[s].buf # ch[t].buf
        /\ ~lp[topics[k].loop].cancelled

\* the instants at which a later call can be made
LaterInstants == lnow..(MaxLimClock + TicksPerMin + 1)

\* C32: a call of Allow for one IP changes the result of no call that another
\* IP makes at any later instant, and the bucket of an IP is a function of
\* that IP's own calls: its reset is a minute after the first call of the
\* IP's window and its count is the number of the window's allowed calls.
C32_IndependentPerIp ==
    /\ [][\A ip \in Ips : Allow(ip) =>
            \A other \in Ips \ {ip} : \A t \in LaterInstants :
                allowed(lim', other, t) = allowed(lim, other, t)]_vars
    /\ [](\A ip \in Ips :
            LET b == lim.buckets[ip]
                h == lh[ip]
            IN /\ b.present =>
                    /\ h.called
                    /\ b.reset = h.start + TicksPerMin
                    /\ b.count = IF h.n <= lim.perMin THEN h.n ELSE lim.perMin
               /\ (h.called /\ lnow <= h.start + TicksPerMin) => b.present)

\* one IP is denied in its window while the other, which called in between
\* and triggered a sweep, is allowed in its own
C32_Witness ==
    \E ip, other \in Ips :
        /\ ip # other
        /\ lim.buckets[ip].present /\ lim.buckets[other].present
        /\ lh[ip].called /\ ~lh[ip].ok /\ lnow <= lh[ip].start + TicksPerMin
        /\ lh[other].called /\ lh[other].ok /\ lh[other].start > lh[ip].start
        /\ ~lim.lastCleanup.isZero /\ lim.lastCleanup.t > lh[ip].start

\* C33: a bucket's reset is set when the bucket is created, a minute ahead;
\* a call before the reset adds one to the count if it is allowed and leaves
\* the bucket as it is if it is denied; the first call at or after the reset
\* is allowed and replaces the bucket by a fresh one.
C33_ResetFixedAtCreation ==
    [][\A ip \in Ips : Allow(ip) =>
          LET b == lim.buckets[ip]
              fresh == [present |-> TRUE, count |-> 1, reset |-> lnow + TicksPerMin]
          IN IF ~b.present THEN lim'.buckets[ip] = fresh
             ELSE IF lnow < b.reset
             THEN lim'.buckets[ip] =
                     IF b.count < lim.perMin THEN [b EXCEPT !.count = @ + 1] ELSE b
             ELSE /\ lim'.buckets[ip] = fresh
                  /\ allowed(lim, ip, lnow)]_vars

\* some call of Allow runs the sweep in this step
Sweeps == lim'.lastCleanup # lim.lastCleanup

\* C34: the sweep runs when none has run yet or more than a minute after the
\* last one; a bucket disappears only past its reset, and a call leaves the
\* bucket of every other IP whose window is open as it is.
C34_SweepSparesOpenWindows ==
    /\ [][Sweeps =>
            /\ lim'.lastCleanup = At(lnow)
            /\ lim.lastCleanup.isZero \/ lnow - lim.lastCleanup.t > TicksPerMin]_vars
    /\ [][\A ip \in Ips :
            (lim.buckets[ip].present /\ ~lim'.buckets[ip].present) =>
                (Sweeps /\ lnow > lim.buckets[ip].reset)]_vars
    /\ [][\A ip \in Ips : Allow(ip) =>
            \A other \in Ips \ {ip} :
                (lim.buckets[other].present /\ lnow <= lim.buckets[other].reset) =>
                    lim'.buckets[other] = lim.buckets[other]]_vars

\* a sweep has evicted the bucket of an IP whose window is over while the
\* other IP, which triggered it, has used up the quota of its open window
C34_Witness ==
    \E ip, other \in Ips :
        /\ ip # other
        /\ lh[ip].called /\ ~lim.buckets[ip].present
        /\ lim.lastCleanup.t > lh[ip].start + TicksPerMin
        /\ lim.buckets[other].present
        /\ lim.buckets[other].count = lim.perMin
        /\ lnow <= lim.buckets[other].reset
        /\ lh[other].called /\ ~lh[other].ok

\* the larger of two durations
Max(a, b) == IF a >= b THEN a ELSE b

C36_NoFailurePageCached ==
    /\ ~(nlast # NoNews /\ nlast.hit /\ nlast.page.fromFailure)
    /\ ~(npage.present /\ npage.val.fromFailure)

\* C37: no channel is closed twice; the channels in a topic's subscriber set,
\* the only ones publish sends to, are open; a channel is closed in the step
\* that has removed it from its topic, and a closed channel receives nothing.
C37_NoSendOnClosedChannel ==
    /\ [](\A s \in Subs : ch[s].closes <= 1)
    /\ [](\A k \in Keys : topics[k].present =>
            \A s \in topics[k].subs : ch[s].closes = 0)
    /\ [][\A s \in Subs :
            /\ ch'[s].closes > ch[s].closes =>
                  /\ ch[s].closes = 0
                  /\ \A k \in Keys :
                        topics'[k].present => s \notin topics'[k].subs
            /\ (ch[s].closes > 0 /\ ch'[s].buf # ch[s].buf) =>
                  ch'[s].buf = <<>>]_vars

\* the caller and the watcher have both called unsubscribe on a channel
\* closed once, and the topic has published to its other member since
C37_Witness ==
    \E k \in Keys : \E s, t \in Subs :
        /\ sub[s].key = k /\ sub[s].by = "watcher" /\ sub[s].once
        /\ ch[s].closes = 1 /\ ch[s].buf = <<>>
        /\ topics[k].present /\ topics[k].subs = {t}
        /\ topics[k].last # NilSnap
        /\ ch[t].buf = <<topics[k].last>>

\* C38: between the critical sections every registered topic has at least one
\* subscriber and a running loop of its key that is not cancelled, and a key
\* has a registered topic exactly when it has a live subscriber.
C38_RegistryInvariant ==
    \A k \in Keys :
        /\ topics[k].present =>
              /\ topics[k].subs # {}
              /\ lp[topics[k].loop].st # "none"
              /\ lp[topics[k].loop].key = k
              /\ ~lp[topics[k].loop].cancelled
        /\ topics[k].present <=> (\E s \in Subs : s \in Members(k))

\* a key is registered again, with both subscribers, while the cancelled
\* loop of its earlier topic is still running
C38_Witness ==
    \E k \in Keys : \E l \in Loops :
        /\ topics[k].present
        /\ topics[k].subs = Subs
        /\ topics[k].loop # l
        /\ lp[l].st # "none" /\ lp[l].key = k /\ lp[l].cancelled

\* the instant item it was written at: its expiry less the effective hard TTL
WrittenAt(it) == it.exp.t - Seconds(intelHardTTL)

\* item it was written at the instant its FetchedAt names
WrittenAtFetchedAt(it) ==
    /\ it.present /\ it.own /\ ~it.exp.isZero
    /\ WrittenAt(it) = ParseRFC3339(it.val.FetchedAt)

\* C39: an entry the service wrote expires the effective hard TTL after its
\* write, within the second its FetchedAt names. A GetSnapshot that goes to
\* the synchronous fetch while the key holds an entry written at its
\* FetchedAt instant has not found it, and if its upstream call fails it
\* returns source=error with the error.
C39_ExpiredEntryNotFound ==
    /\ [](\A k \in Keys : (cache[k].present /\ cache[k].own) =>
            /\ ~cache[k].exp.isZero
            /\ WrittenAt(cache[k]) >= ParseRFC3339(cache[k].val.FetchedAt)
            /\ WrittenAt(cache[k]) < ParseRFC3339(cache[k].val.FetchedAt) + TicksPerSec)
    /\ [][\A c \in Callers :
            (pc[c] = "idle" /\ pc'[c] = "fetch"
                /\ WrittenAtFetchedAt(cache[loc'[c].key])) =>
                /\ now > cache[loc'[c].key].exp.t
                /\ ~loc'[c].ok
                /\ ~cache'[loc'[c].key].present]_vars
    /\ [][\A c \in Callers :
            (pc[c] = "fetch" /\ pc'[c] = "idle" /\ ~loc[c].ok
                /\ last'.upstream = "fail") =>
                (last'.Source = "error" /\ ~last'.nilErr /\ last'.Err # "")]_vars

\* a call that found nothing where an earlier call had a hit has met a
\* failing upstream and returned source=error
C39_Witness ==
    /\ last.c # ""
    /\ last.tier = "fetch"
    /\ ~last.ok
    /\ last.upstream = "fail"
    /\ last.Source = "error"
    /\ \E d \in Callers : d # last.c /\ pc[d] = "idle" /\ gh[d].tier = "fresh"
    /\ \A k \in Keys : ~cache[k].present
    /\ cfg.CacheTTLIntelHard > cfg.CacheTTLIntel

\* C40: a refresh flag that is set is eventually cleared, whatever the
\* refresh's upstream call returns, and a flag is set only while a refresh of
\* its key is running.
C40_RefreshFlagCleared ==
    /\ \A k \in Keys : refreshing[k] ~> ~refreshing[k]
    /\ [](\A k \in Keys : refreshing[k] => RefreshesInFlight(k) # {})

\* both callers have started a refresh in their latest calls and one refresh
\* is in flight: the flag set for the first was cleared and set again
C40_Witness ==
    /\ \A c \in Callers : gh[c].tier = "stale" /\ gh[c].spawned /\ pc[c] = "idle"
    /\ \E k \in Keys : refreshing[k] /\ Cardinality(RefreshesInFlight(k)) = 1

====
